---- MODULE Spec2Model ----
(***************************************************************************)
(* The Express MCP server of src/unnamed/part_003: lambda.ts (lines 1-85,  *)
(* initializeServer) and index.ts (lines 86-178, the Express application). *)
(* One HTTP request is one process r; its position pc[r] walks through the *)
(* express.json() middleware, the route handlers and, for POST /mcp, the   *)
(* awaits of the handler.  The MCP SDK objects (McpServer and              *)
(* StreamableHTTPServerTransport) live in two heaps, srv and tr.           *)
(***************************************************************************)
EXTENDS Integers, Sequences, FiniteSets, TLC

\* ------------------------------------------------------------------ bounds
MaxReq == 2        \* HTTP requests in one behaviour
MaxSignals == 2    \* SIGTERM signals delivered in one behaviour
MaxNum == 4        \* calculator arguments range over -MaxNum..MaxNum (and 10)

Reqs == 1..MaxReq

\* ------------------------------------------------------------------ inputs
NullId == "null"
Verbs == {"POST", "GET", "DELETE", "PUT"}

\* The params of an invocation: method tools/call or prompts/get, the name
\* invoked and its arguments.  numeric: the arguments a and b are JSON numbers
\* (a and b then hold them); who: the argument "name" of a prompt.
NoCall ==
    [method |-> "none", name |-> "none", a |-> 0, b |-> 0, operation |-> "none",
     numeric |-> FALSE, who |-> "none"]
CalculatorCall(a, b, operation) ==
    [method |-> "tools/call", name |-> "calculator", a |-> a, b |-> b,
     operation |-> operation, numeric |-> TRUE, who |-> "none"]

\* The body of a request as the client sent it: absent, bytes that are not
\* JSON, or a JSON-RPC request {jsonrpc, id, method: tools/call, params}.
BodyNone == [kind |-> "none", id |-> NullId, call |-> NoCall]
BodyMalformed == [kind |-> "malformed", id |-> NullId, call |-> NoCall]
BodyRequests ==
    { [kind |-> "request", id |-> "id1",
       call |-> CalculatorCall(2, 3, "add")],
      [kind |-> "request", id |-> "id2",
       call |-> CalculatorCall(4, 0, "divide")] }
Bodies == {BodyNone, BodyMalformed} \cup BodyRequests

NoReq == [verb |-> "none", ctJson |-> FALSE, body |-> BodyNone]
\* Every request is on the path /mcp; ctJson: Content-Type is application/json.
Inputs == [verb : Verbs, ctJson : BOOLEAN, body : Bodies]
\* The well-formed POST traffic, whose exchanges the lifecycle claims are about.
PostInputs == [verb : {"POST"}, ctJson : {TRUE}, body : BodyRequests]

\* ------------------------------------------------------------------ envelopes
Envelope(kind, code, message, id, content) ==
    [jsonrpc |-> "2.0", kind |-> kind, code |-> code, message |-> message,
     id |-> id, content |-> content]

MethodNotAllowedBody == Envelope("error", -32000, "Method not allowed.", NullId, "")
InternalErrorBody == Envelope("error", -32603, "Internal server error", NullId, "")
\* Written by the SDK transport itself.
UnsupportedMediaBody == Envelope("error", -32000, "Unsupported Media Type", NullId, "")
ParseErrorBody == Envelope("error", -32700, "Parse error", NullId, "")
ResultBody(id, content) == Envelope("result", 0, "", id, content)

NoRes == [status |-> 0, ended |-> FALSE, envelopes |-> <<>>, html |-> FALSE]
JsonRes(status, env) ==
    [status |-> status, ended |-> TRUE, envelopes |-> <<env>>, html |-> FALSE]
HtmlRes(status) ==
    [status |-> status, ended |-> TRUE, envelopes |-> <<>>, html |-> TRUE]

VARIABLES
    req,        \* req[r]: the request as sent (NoReq before it arrives)
    pc,         \* pc[r]: position of request r in the application
    reqBody,    \* req.body after express.json(): unset, empty, parsed, failed
    res,        \* res[r]: the response object of request r
    reqClose,   \* the 'close' event of req[r]: open, finished, aborted
    listener,   \* the req.on("close") callback of line 118 is registered
    server,     \* const server of the POST handler (0: not built)
    transport,  \* const transport of the POST handler (0: not built)
    pending,    \* transport captured by the dispatched tool call (0: none)
    srv,        \* heap of McpServer objects
    tr,         \* heap of StreamableHTTPServerTransport objects
    sigterms,   \* SIGTERM handlers started (each awaits its 100 ms timer)
    exited,     \* process.exit(0) has run
    lateArrival, \* history: request r arrived after a SIGTERM was received
    health      \* the load balancer's last health probe and its answer

vars == <<req, pc, reqBody, res, reqClose, listener, server, transport,
          pending, srv, tr, sigterms, exited, lateArrival, health>>

NoProbe == [path |-> "none", status |-> 0, phase |-> "none"]
NoServer == [built |-> FALSE, tools |-> {}, prompts |-> {}, transport |-> 0]
NoTransport == [state |-> "None", stream |-> "none", conn |-> 0, ends |-> 0]

Init ==
    /\ req = [r \in Reqs |-> NoReq]
    /\ pc = [r \in Reqs |-> "idle"]
    /\ reqBody = [r \in Reqs |-> "unset"]
    /\ res = [r \in Reqs |-> NoRes]
    /\ reqClose = [r \in Reqs |-> "open"]
    /\ listener = [r \in Reqs |-> FALSE]
    /\ server = [r \in Reqs |-> 0]
    /\ transport = [r \in Reqs |-> 0]
    /\ pending = [r \in Reqs |-> 0]
    /\ srv = [s \in Reqs |-> NoServer]
    /\ tr = [t \in Reqs |-> NoTransport]
    /\ sigterms = 0
    /\ exited = FALSE
    /\ lateArrival = [r \in Reqs |-> FALSE]
    /\ health = NoProbe

\* ------------------------------------------------------------------ lambda.ts
\* a / b for integers, b # 0: the quotient when it is an integer.
Abs(n) == IF n < 0 THEN -n ELSE n
IsExact(a, b) == Abs(a) % Abs(b) = 0
ExactQuotient(a, b) ==
    IF (a < 0) = (b < 0) THEN Abs(a) \div Abs(b) ELSE -(Abs(a) \div Abs(b))

\* The text of a quotient: String(a / b).  A quotient that is not an integer
\* is kept as the pair it was computed from, not as its decimal expansion.
QuotientText(a, b) ==
    IF IsExact(a, b) THEN ToString(ExactQuotient(a, b))
    ELSE ToString(a) \o "/" \o ToString(b)

\* A subtraction with its operands the wrong way round.
Calculator_SubtractSwapped(a, b, operation) ==
    CASE operation = "add" -> ToString(a + b)
      [] operation = "subtract" -> ToString(b - a)
      [] operation = "multiply" -> ToString(a * b)
      [] operation = "divide" ->
            IF b = 0 THEN "Error: Cannot divide by zero" ELSE QuotientText(a, b)
      [] OTHER -> "Error: Invalid operation"

\* A division without the test for a zero divisor: String(a / 0).
Calculator_NoZeroCheck(a, b, operation) ==
    CASE operation = "add" -> ToString(a + b)
      [] operation = "subtract" -> ToString(a - b)
      [] operation = "multiply" -> ToString(a * b)
      [] operation = "divide" ->
            IF b = 0
            THEN (IF a = 0 THEN "NaN" ELSE IF a < 0 THEN "-Infinity" ELSE "Infinity")
            ELSE QuotientText(a, b)
      [] OTHER -> "Error: Invalid operation"

\* The calculator tool's handler: the text of its single content block.
\* String(result) of an integer is its decimal numeral.
Calculator(a, b, operation) ==
    CASE operation = "add" -> ToString(a + b)
      [] operation = "subtract" -> ToString(a - b)
      [] operation = "multiply" -> ToString(a * b)
      [] operation = "divide" ->
            IF b = 0 THEN "Error: Cannot divide by zero" ELSE QuotientText(a, b)
      [] OTHER -> "Error: Invalid operation"

\* A schema that takes any string for the operation.
CalculatorSchema_AnyOperation(c) == c.numeric

\* The input schema of the calculator: a and b numbers, operation one of four.
CalculatorSchema(c) ==
    c.numeric /\ c.operation \in {"add", "subtract", "multiply", "divide"}

\* The argument schema of the greeting prompt: name, a string.
GreetingSchema(c) == c.who # "none"

\* The greeting prompt's handler: the text of its single message.
GreetingTemplate(who) == "Please greet " \o who \o " in a friendly manner."

\* The server hoisted out of the handler: one instance for every request.
initializeServer_Shared(r) == 1

\* A call of initializeServer() by request r: new McpServer(...) is an object
\* no earlier call returned; it is named after the request that built it.
initializeServer(r) == r

\* A registry with one registration more than initializeServer() makes.
BuiltServer_ExtraTool ==
    [built |-> TRUE, tools |-> {"calculator", "echo"},
     prompts |-> {"greeting-template"}, transport |-> 0]

\* The registry initializeServer() fills before it returns the server.
BuiltServer ==
    [built |-> TRUE, tools |-> {"calculator"}, prompts |-> {"greeting-template"},
     transport |-> 0]

\* new StreamableHTTPServerTransport({sessionIdGenerator: undefined}).
NewTransport(r) == r

\* ------------------------------------------------------------------ SDK objects
\* A close that ends the response on every call and tells no one.
TransportClose_NotIdempotent(h, t) ==
    [h EXCEPT !.tr = [h.tr EXCEPT ![t] =
                        [state |-> "Closed", stream |-> "none", conn |-> @.conn,
                         ends |-> @.ends + 1]]]

\* transport.close(): ends every response still in the stream mapping, clears
\* the mapping and calls onclose, which makes the owning server forget the
\* transport (Protocol._onclose).  h is the pair of heaps [srv, tr].
TransportClose(h, t) ==
    LET T == h.tr[t]
        open == T.stream # "none"
    IN  [tr |-> [h.tr EXCEPT ![t] =
                    [state |-> "Closed", stream |-> "none", conn |-> T.conn,
                     ends |-> IF open THEN T.ends + 1 ELSE T.ends]],
         srv |-> [s \in DOMAIN h.srv |->
                    IF h.srv[s].transport = t
                    THEN [h.srv[s] EXCEPT !.transport = 0]
                    ELSE h.srv[s]]]

\* server.close(): await this._transport?.close().
ServerClose(h, s) ==
    IF h.srv[s].transport # 0 THEN TransportClose(h, h.srv[s].transport) ELSE h

\* The callback of req.on("close"): transport.close(); server.close().
CloseCallback(h, r) ==
    ServerClose(TransportClose(h, transport[r]), server[r])

\* ------------------------------------------------------------------ index.ts
\* A request reaches the listening HTTP server.  Nothing in the application
\* closes the listener, so this is possible until the process has exited.
Arrive(r, in) ==
    /\ ~exited
    /\ pc[r] = "idle"
    /\ IF r = 1 THEN TRUE ELSE pc[r - 1] # "idle"
    /\ req' = [req EXCEPT ![r] = in]
    /\ pc' = [pc EXCEPT ![r] = "json"]
    /\ lateArrival' = [lateArrival EXCEPT ![r] = sigterms > 0]
    /\ UNCHANGED <<health, reqBody, res, reqClose, listener, server, transport,
                   pending, srv, tr, sigterms, exited>>

\* app.use(express.json()): runs for every verb and path, before any route.
\* A body that is present with Content-Type application/json is parsed; a
\* parse failure goes to Express's default error handler (400, an HTML page).
ExpressJson(r) ==
    /\ ~exited
    /\ pc[r] = "json"
    /\ IF req[r].ctJson /\ req[r].body.kind # "none"
       THEN IF req[r].body.kind = "malformed"
            THEN /\ reqBody' = [reqBody EXCEPT ![r] = "failed"]
                 /\ res' = [res EXCEPT ![r] = HtmlRes(400)]
                 /\ pc' = [pc EXCEPT ![r] = "done"]
            ELSE /\ reqBody' = [reqBody EXCEPT ![r] = "parsed"]
                 /\ pc' = [pc EXCEPT ![r] = "route"]
                 /\ UNCHANGED res
       ELSE /\ reqBody' = [reqBody EXCEPT ![r] = "empty"]
            /\ pc' = [pc EXCEPT ![r] = "route"]
            /\ UNCHANGED res
    /\ UNCHANGED <<health, lateArrival, req, reqClose, listener, server, transport, pending, srv,
                   tr, sigterms, exited>>

\* The 405 both app.get('/mcp') and app.delete('/mcp') write.
MethodNotAllowed(r) ==
    /\ res' = [res EXCEPT ![r] = JsonRes(405, MethodNotAllowedBody)]
    /\ pc' = [pc EXCEPT ![r] = "done"]
    /\ UNCHANGED <<health, lateArrival, req, reqBody, reqClose, listener, server, transport,
                   pending, srv, tr, sigterms, exited>>

GetMcp(r) ==
    /\ ~exited
    /\ pc[r] = "route"
    /\ req[r].verb = "GET"
    /\ MethodNotAllowed(r)

DeleteMcp(r) ==
    /\ ~exited
    /\ pc[r] = "route"
    /\ req[r].verb = "DELETE"
    /\ MethodNotAllowed(r)

\* No route matches another verb: Express's final handler answers 404 (HTML).
NoRoute(r) ==
    /\ ~exited
    /\ pc[r] = "route"
    /\ req[r].verb \notin {"POST", "GET", "DELETE"}
    /\ res' = [res EXCEPT ![r] = HtmlRes(404)]
    /\ pc' = [pc EXCEPT ![r] = "done"]
    /\ UNCHANGED <<health, lateArrival, req, reqBody, reqClose, listener, server, transport,
                   pending, srv, tr, sigterms, exited>>

\* app.post("/mcp"), up to the first await: the server and the transport of
\* this request are built.
PostMcp(r) ==
    /\ ~exited
    /\ pc[r] = "route"
    /\ req[r].verb = "POST"
    /\ server' = [server EXCEPT ![r] = initializeServer(r)]
    /\ transport' = [transport EXCEPT ![r] = NewTransport(r)]
    /\ srv' = [srv EXCEPT ![initializeServer(r)] = BuiltServer]
    /\ tr' = [tr EXCEPT ![NewTransport(r)] =
                [state |-> "Created", stream |-> "none", conn |-> 0, ends |-> 0]]
    /\ pc' = [pc EXCEPT ![r] = "connect"]
    /\ UNCHANGED <<health, lateArrival, req, reqBody, res, reqClose, listener, pending, sigterms,
                   exited>>

\* The handler going on to handleRequest without the transport being bound.
Connect_NoBind(r, ok) ==
    /\ ~exited
    /\ pc[r] = "connect"
    /\ pc' = [pc EXCEPT ![r] = IF ok THEN "handle" ELSE "catch"]
    /\ UNCHANGED <<health, lateArrival, req, reqBody, res, reqClose, listener, server,
                   transport, pending, srv, tr, sigterms, exited>>

\* await server.connect(transport): binds the transport to the server and
\* starts it, or throws into the catch block.
Connect(r, ok) ==
    /\ ~exited
    /\ pc[r] = "connect"
    /\ IF ok
       THEN /\ srv' = [srv EXCEPT ![server[r]].transport = transport[r]]
            /\ tr' = [tr EXCEPT ![transport[r]].state = "Connected"]
            /\ pc' = [pc EXCEPT ![r] = "handle"]
       ELSE /\ pc' = [pc EXCEPT ![r] = "catch"]
            /\ UNCHANGED <<srv, tr>>
    /\ UNCHANGED <<health, lateArrival, req, reqBody, res, reqClose, listener, server, transport,
                   pending, sigterms, exited>>

\* What transport.handleRequest(req, res, req.body) answers when it does not
\* throw: 415 unless the Content-Type is application/json, 400 unless the body
\* is a JSON-RPC message, else the headers of the event stream.
Accepted(r) == req[r].ctJson /\ reqBody[r] = "parsed"

HandleResponse(r) ==
    IF ~req[r].ctJson THEN JsonRes(415, UnsupportedMediaBody)
    ELSE IF reqBody[r] # "parsed" THEN JsonRes(400, ParseErrorBody)
    ELSE [status |-> 200, ended |-> FALSE, envelopes |-> <<>>, html |-> FALSE]

\* await transport.handleRequest(req, res, req.body).  outcome "ok": the
\* request is answered or, when accepted, mapped to its stream and handed to
\* the server, whose current transport the pending call captures.  It may
\* also throw, before or after the response headers were written.
HandleRequest(r, outcome) ==
    /\ ~exited
    /\ pc[r] = "handle"
    /\ CASE outcome = "ok" ->
              /\ res' = [res EXCEPT ![r] = HandleResponse(r)]
              /\ IF Accepted(r)
                 THEN /\ tr' = [tr EXCEPT ![transport[r]].stream = req[r].body.id,
                                          ![transport[r]].conn = r]
                      /\ pending' = [pending EXCEPT ![r] = srv[server[r]].transport]
                 ELSE UNCHANGED <<tr, pending>>
              /\ pc' = [pc EXCEPT ![r] = "listen"]
         [] outcome = "throwBefore" ->
              /\ pc' = [pc EXCEPT ![r] = "catch"]
              /\ UNCHANGED <<res, tr, pending>>
         [] outcome = "throwAfter" ->
              /\ res' = [res EXCEPT ![r].status = 200]
              /\ pc' = [pc EXCEPT ![r] = "catch"]
              /\ UNCHANGED <<tr, pending>>
    /\ UNCHANGED <<health, lateArrival, req, reqBody, reqClose, listener, server, transport, srv,
                   sigterms, exited>>

\* req.on("close", ...): reached only when neither await threw.
RegisterClose(r) ==
    /\ ~exited
    /\ pc[r] = "listen"
    /\ listener' = [listener EXCEPT ![r] = TRUE]
    /\ pc' = [pc EXCEPT ![r] = "done"]
    /\ UNCHANGED <<health, lateArrival, req, reqBody, res, reqClose, server, transport, pending,
                   srv, tr, sigterms, exited>>

\* The catch block: logs, and answers 500 unless the headers were sent.
Catch(r) ==
    /\ ~exited
    /\ pc[r] = "catch"
    /\ res' = [res EXCEPT ![r] =
                 IF res[r].status = 0 THEN JsonRes(500, InternalErrorBody) ELSE @]
    /\ pc' = [pc EXCEPT ![r] = "done"]
    /\ UNCHANGED <<health, lateArrival, req, reqBody, reqClose, listener, server, transport,
                   pending, srv, tr, sigterms, exited>>

\* A lookup that falls back to the capability of the kind asked for.
Registered_Any(s, c) == c.method \in {"tools/call", "prompts/get"}

\* The server finds the invoked name among its tools or its prompts.
Registered(s, c) ==
    \/ c.method = "tools/call" /\ c.name \in srv[s].tools
    \/ c.method = "prompts/get" /\ c.name \in srv[s].prompts

\* The arguments satisfy the schema the capability was registered with.
SchemaOk(c) ==
    IF c.method = "tools/call" THEN CalculatorSchema(c) ELSE GreetingSchema(c)

\* The result of the invocation of request r: what its handler returns.
ToolResult(r) ==
    LET c == req[r].body.call
    IN  ResultBody(req[r].body.id,
                   IF c.method = "tools/call" THEN Calculator(c.a, c.b, c.operation)
                   ELSE GreetingTemplate(c.who))

\* What the server of request r answers to its invocation: an InvalidParams
\* error (-32602) with the request's id when the name is not registered or
\* the arguments fail the schema, the handler's result otherwise.
Dispatch(r) ==
    LET c == req[r].body.call
    IN  IF ~Registered(server[r], c)
        THEN Envelope("error", -32602, "not found", req[r].body.id, "")
        ELSE IF ~SchemaOk(c)
        THEN Envelope("error", -32602, "invalid arguments", req[r].body.id, "")
        ELSE ToolResult(r)

\* The invocation of request r is answered and the server sends the answer
\* through the transport captured at dispatch: written to the response the
\* transport maps the request id to, which is then ended; dropped (an error
\* is logged) when the transport maps no such id.
HandlerDone(r) ==
    /\ ~exited
    /\ pending[r] # 0
    /\ LET t == pending[r]
       IN  IF tr[t].stream = req[r].body.id
           THEN /\ res' = [res EXCEPT ![tr[t].conn] =
                             [@ EXCEPT !.envelopes = Append(@, Dispatch(r)),
                                       !.ended = TRUE]]
                /\ tr' = [tr EXCEPT ![t].stream = "none"]
           ELSE UNCHANGED <<res, tr>>
    /\ pending' = [pending EXCEPT ![r] = 0]
    /\ UNCHANGED <<health, lateArrival, req, pc, reqBody, reqClose, listener, server, transport,
                   srv, sigterms, exited>>

\* The transport's own res.on("close") listener: the stream of a connection
\* that closed is dropped from the mapping.
DropStream(h, r) ==
    [h EXCEPT !.tr = [t \in DOMAIN h.tr |->
                        IF h.tr[t].conn = r /\ h.tr[t].stream # "none"
                        THEN [h.tr[t] EXCEPT !.stream = "none"]
                        ELSE h.tr[t]]]

\* The 'close' event of request r: after the response was finished, or when
\* the client disconnects (aborted).  It runs the callback of line 118 if that
\* is registered by now; resFirst: the transport's listener on res ran first.
\* A disconnect while express.json() reads the body ends the request there.
ReqClose(r, resFirst) ==
    /\ ~exited
    /\ pc[r] # "idle"
    /\ reqClose[r] = "open"
    /\ reqClose' = [reqClose EXCEPT ![r] = IF res[r].ended THEN "finished" ELSE "aborted"]
    /\ pc' = [pc EXCEPT ![r] = IF pc[r] = "json" THEN "done" ELSE @]
    /\ LET h0 == [srv |-> srv, tr |-> tr]
           h1 == IF resFirst THEN DropStream(h0, r) ELSE h0
           h2 == IF listener[r] THEN CloseCallback(h1, r) ELSE h1
           h3 == DropStream(h2, r)
       IN  /\ srv' = h3.srv
           /\ tr' = h3.tr
    /\ UNCHANGED <<health, lateArrival, req, reqBody, res, listener, server, transport, pending,
                   sigterms, exited>>

\* process.on('SIGTERM'): logs and awaits a 100 ms timer.
Sigterm ==
    /\ ~exited
    /\ sigterms < MaxSignals
    /\ sigterms' = sigterms + 1
    /\ UNCHANGED <<health, lateArrival, req, pc, reqBody, res, reqClose, listener, server,
                   transport, pending, srv, tr, exited>>

\* A timer that fires without the process.exit(0) after it.
Exit_TimerOnly ==
    /\ ~exited
    /\ sigterms > 0
    /\ sigterms' = sigterms - 1
    /\ UNCHANGED <<health, lateArrival, req, pc, reqBody, res, reqClose, listener,
                   server, transport, pending, srv, tr, exited>>

\* The timer of a SIGTERM handler fires: process.exit(0).
Exit ==
    /\ ~exited
    /\ sigterms > 0
    /\ exited' = TRUE
    /\ UNCHANGED <<health, lateArrival, req, pc, reqBody, res, reqClose, listener, server,
                   transport, pending, srv, tr, sigterms>>

Outcomes == {"ok", "throwBefore", "throwAfter"}

Next ==
    \/ \E r \in Reqs, in \in Inputs : Arrive(r, in)
    \/ \E r \in Reqs : ExpressJson(r)
    \/ \E r \in Reqs : GetMcp(r)
    \/ \E r \in Reqs : DeleteMcp(r)
    \/ \E r \in Reqs : NoRoute(r)
    \/ \E r \in Reqs : PostMcp(r)
    \/ \E r \in Reqs, ok \in BOOLEAN : Connect(r, ok)
    \/ \E r \in Reqs, o \in Outcomes : HandleRequest(r, o)
    \/ \E r \in Reqs : RegisterClose(r)
    \/ \E r \in Reqs : Catch(r)
    \/ \E r \in Reqs : HandlerDone(r)
    \/ \E r \in Reqs, resFirst \in BOOLEAN : ReqClose(r, resFirst)
    \/ Sigterm
    \/ Exit

Spec == Init /\ [][Next]_vars

\* The POST exchanges alone, while the process runs: the requests of
\* PostInputs, from arrival to the release of their server and transport.
NextPost ==
    \/ \E r \in Reqs, in \in PostInputs : Arrive(r, in)
    \/ \E r \in Reqs : ExpressJson(r)
    \/ \E r \in Reqs : PostMcp(r)
    \/ \E r \in Reqs, ok \in BOOLEAN : Connect(r, ok)
    \/ \E r \in Reqs, o \in Outcomes : HandleRequest(r, o)
    \/ \E r \in Reqs : RegisterClose(r)
    \/ \E r \in Reqs : Catch(r)
    \/ \E r \in Reqs : HandlerDone(r)
    \/ \E r \in Reqs, resFirst \in BOOLEAN : ReqClose(r, resFirst)

PostSpec == Init /\ [][NextPost]_vars

\* The shutdown path with POST exchanges in flight, up to their tool call
\* being dispatched or the client leaving.  The event
\* loop runs a timer that is due, so the exit of a started SIGTERM handler
\* is weakly fair.
DrainInputs == { in \in PostInputs : in.body.id = "id1" }

NextDrain ==
    \/ \E r \in Reqs, in \in DrainInputs : Arrive(r, in)
    \/ \E r \in Reqs : ExpressJson(r)
    \/ \E r \in Reqs : PostMcp(r)
    \/ \E r \in Reqs : Connect(r, TRUE)
    \/ \E r \in Reqs : HandleRequest(r, "ok")
    \/ \E r \in Reqs : RegisterClose(r)
    \/ \E r \in Reqs : ReqClose(r, TRUE)
    \/ Sigterm
    \/ Exit

DrainSpec == Init /\ [][NextDrain]_vars /\ WF_vars(Exit)

\* One invocation at a time, fault-free, over a range of names and
\* arguments: what the registry and the handlers answer.
CalcNums == (-MaxNum..MaxNum) \cup {10}
CalcOps == {"add", "subtract", "multiply", "divide", "power"}
PromptCall(name, who) ==
    [method |-> "prompts/get", name |-> name, a |-> 0, b |-> 0,
     operation |-> "none", numeric |-> FALSE, who |-> who]
CalcCalls ==
    { CalculatorCall(a, b, op) : a \in CalcNums, b \in CalcNums, op \in CalcOps }
    \cup { [CalculatorCall(0, 0, op) EXCEPT !.numeric = FALSE] : op \in {"add", "power"} }
    \cup { [CalculatorCall(2, 3, "add") EXCEPT !.name = n] :
              n \in {"unknown", "greeting-template"} }
    \cup { PromptCall(n, w) : n \in {"greeting-template", "calculator", "unknown"},
                              w \in {"Ada", "none"} }
CalcInputs ==
    [verb : {"POST"}, ctJson : {TRUE},
     body : { [kind |-> "request", id |-> i, call |-> c] :
                 i \in {"id1", "id2"}, c \in CalcCalls }]

NextCalc ==
    \/ \E in \in CalcInputs : Arrive(1, in)
    \/ ExpressJson(1)
    \/ PostMcp(1)
    \/ Connect(1, TRUE)
    \/ HandleRequest(1, "ok")
    \/ RegisterClose(1)
    \/ HandlerDone(1)
    \/ ReqClose(1, TRUE)

CalcSpec == Init /\ [][NextCalc]_vars

\* The phase of the process the specification speaks of, read off the code:
\* Running until a SIGTERM handler starts, Draining until process.exit.
Phase ==
    IF exited THEN "Stopped" ELSE IF sigterms > 0 THEN "Draining" ELSE "Running"

\* The session of request r: the state of the transport its handler built.
Session(r) == IF transport[r] = 0 THEN "None" ELSE tr[transport[r]].state

\* ------------------------------------------------- the ECS deployment
\* The target group's health check (infra-stack.ts): GET on this path of
\* port 3000 every 30 s, healthy when the answer's code is one of these.
HealthCheckPath == "/health"
HealthyHttpCodes == {200}

\* The route the deployed server answers the probe with.  The container's
\* server sources are not part of the sources at hand; the route is taken
\* from the specification: a health endpoint answering 200.
HealthRoute_Missing(path) == 404

HealthRoute(path) == IF path = "/health" THEN 200 ELSE 404

\* One probe of the load balancer, answered while the process lives.
HealthCheck ==
    /\ ~exited
    /\ \E path \in {HealthCheckPath, "/"} :
          health' = [path |-> path, status |-> HealthRoute(path), phase |-> Phase]
    /\ UNCHANGED <<req, pc, reqBody, res, reqClose, listener, server, transport,
                   pending, srv, tr, sigterms, exited, lateArrival>>

NextHealth ==
    \/ NextDrain
    \/ HealthCheck

HealthSpec == Init /\ [][NextHealth]_vars

\* ------------------------------------------------------------------ claims

\* C1: every GET or DELETE on /mcp that is answered is answered 405 with
\* exactly the Method-not-allowed envelope, whatever its headers and body.
C1_GetDeleteAlways405 ==
    \A r \in Reqs :
        (req[r].verb \in {"GET", "DELETE"} /\ res[r].status # 0)
            => res[r] = JsonRes(405, MethodNotAllowedBody)

\* C2: for a request whose verb is not POST no body parsing happens before
\* (or instead of) the 405 rejection: as long as the 405 is not written,
\* express.json() has neither parsed nor failed to parse its body.
C2_NoParseBeforeRejection ==
    \A r \in Reqs :
        (req[r].verb \notin {"POST", "none"} /\ res[r].status # 405)
            => reqBody[r] \notin {"parsed", "failed"}

\* C3: a POST that is not rejected (a JSON-RPC request with Content-Type
\* application/json) gets at most one envelope, exactly one once its response
\* is ended, and every envelope carries the id the request was sent with.
C3_OneEnvelopeSameId ==
    \A r \in Reqs :
        (req[r].verb = "POST" /\ req[r].ctJson /\ req[r].body.kind = "request")
            => /\ Len(res[r].envelopes) <= 1
               /\ res[r].ended => Len(res[r].envelopes) = 1
               /\ \A i \in 1..Len(res[r].envelopes) :
                     res[r].envelopes[i].id = req[r].body.id

\* C4: concurrent POSTs share nothing: no two requests hold the same server
\* or the same transport, a server is bound to no transport but the one of
\* its own request, and every result written on a request's connection is
\* that request's own result (its id, its handler's content).
C4_Isolation ==
    /\ \A r1, r2 \in Reqs :
          (r1 # r2 /\ server[r1] # 0 /\ server[r2] # 0)
              => server[r1] # server[r2] /\ transport[r1] # transport[r2]
    /\ \A r \in Reqs :
          server[r] # 0 => srv[server[r]].transport \in {0, transport[r]}
    /\ \A r \in Reqs : \A i \in 1..Len(res[r].envelopes) :
          res[r].envelopes[i].kind = "result" => res[r].envelopes[i] = ToolResult(r)

\* C4 witness: two requests with distinct ids in flight together, one still
\* awaiting its handler while the other already holds its own result.
C4_Witness ==
    \E r1, r2 \in Reqs :
        /\ r1 # r2
        /\ req[r1].body.id # req[r2].body.id
        /\ pending[r1] # 0
        /\ res[r2].envelopes = <<ToolResult(r2)>>

\* C5: a POST with a malformed JSON body is answered with one error envelope
\* whose id is null, never with a non-envelope body, and reaches no handler.
C5_MalformedPostDecodeError ==
    \A r \in Reqs :
        (req[r].verb = "POST" /\ req[r].body.kind = "malformed" /\ res[r].status # 0)
            => /\ ~res[r].html
               /\ Len(res[r].envelopes) = 1
               /\ res[r].envelopes[1].kind = "error"
               /\ res[r].envelopes[1].id = NullId
               /\ pending[r] = 0

\* C6: once the exchange of a POST has ended (response delivered or client
\* gone, the 'close' event emitted) and its handler has run to its end without
\* a fault, with no tool call outstanding, the session is Closed.
C6_ReleasedWhenExchangeEnds ==
    \A r \in Reqs :
        (pc[r] = "done" /\ listener[r] /\ reqClose[r] # "open" /\ pending[r] = 0)
            => Session(r) = "Closed"

\* C7: once a POST whose handler went through the catch block has ended, its
\* session is Closed: no fault path leaves it Created or Connected.
C7_FaultStillCloses ==
    \A r \in Reqs :
        (pc[r] = "done" /\ server[r] # 0 /\ ~listener[r] /\ reqClose[r] # "open")
            => Session(r) = "Closed"

\* C8: the close callback releases the connection of a session at most once:
\* no transport ends its response twice, and a Closed transport holds no
\* stream and is referenced by no server, so a further close is a no-op.
C8_CloseIdempotent ==
    \A t \in Reqs :
        /\ tr[t].ends <= 1
        /\ tr[t].state = "Closed"
              => /\ tr[t].stream = "none"
                 /\ \A s \in Reqs : srv[s].transport # t
                 /\ TransportClose([srv |-> srv, tr |-> tr], t) = [srv |-> srv, tr |-> tr]

\* C8 witness: the callback closed a transport whose stream was still open.
C8_Witness ==
    \E r \in Reqs :
        /\ listener[r] /\ reqClose[r] = "aborted"
        /\ Session(r) = "Closed"
        /\ tr[transport[r]].ends = 1

\* C9: a session only moves Created -> Connected -> Closed, Closed is final,
\* and a request is handled (handleRequest leaves its await, a result is
\* written to the stream) only while its session is Connected.
C9_Step ==
    \A r \in Reqs :
        /\ tr[r].state = "None" => tr'[r].state \in {"None", "Created"}
        /\ tr[r].state = "Created" => tr'[r].state \in {"Created", "Connected"}
        /\ tr[r].state = "Connected" => tr'[r].state \in {"Connected", "Closed"}
        /\ tr[r].state = "Closed" => tr'[r].state = "Closed"
        /\ (pc[r] = "handle" /\ pc'[r] # "handle") => Session(r) = "Connected"
        /\ Len(res'[r].envelopes) > Len(res[r].envelopes)
              => \/ res'[r].envelopes[Len(res'[r].envelopes)].kind = "error"
                 \/ Session(r) = "Connected"

C9_SessionStateMachine == [][C9_Step]_vars

\* C9 witness: a session that went all the way: its result was streamed and
\* it is Closed.
C9_Witness ==
    \E r \in Reqs :
        /\ Session(r) = "Closed"
        /\ res[r].envelopes = <<ToolResult(r)>>

\* C10: a request that arrives after a SIGTERM was received is given no
\* server instance and reaches no handler.
C10_NoNewRequestsWhileDraining ==
    \A r \in Reqs :
        lateArrival[r] => server[r] = 0 /\ transport[r] = 0 /\ pending[r] = 0

\* C11: the phases only move Running -> Draining -> Stopped (further SIGTERMs
\* while Draining change nothing), and a process that received a SIGTERM
\* eventually is Stopped.
C11_Step ==
    /\ Phase = "Running" => Phase' \in {"Running", "Draining"}
    /\ Phase = "Draining" => Phase' \in {"Draining", "Stopped"}
    /\ Phase = "Stopped" => Phase' = "Stopped"

C11_ShutdownOrder ==
    /\ [][C11_Step]_vars
    /\ (Phase = "Draining") ~> (Phase = "Stopped")

\* C11 witness: the process stopped after a second SIGTERM arrived while it
\* was draining.
C11_Witness == Phase = "Stopped" /\ sigterms > 1

\* C12: the process is never Stopped while a session it created is still
\* Created or Connected.
C12_NoStopWithOpenSession ==
    exited => \A r \in Reqs : Session(r) \notin {"Created", "Connected"}

\* C13: an InternalError envelope (-32603) carries the id of the request when
\* the request body was decoded and had one, and null only otherwise.
C13_InternalErrorEchoesId ==
    \A r \in Reqs : \A i \in 1..Len(res[r].envelopes) :
        res[r].envelopes[i].code = -32603
            => res[r].envelopes[i].id =
                  IF reqBody[r] = "parsed" THEN req[r].body.id ELSE NullId

\* C14: when the POST handler ended in its catch block with the response
\* headers already sent, no envelope was added to the response and the
\* connection of the request is terminated.
C14_FaultAfterHeadersTerminates ==
    \A r \in Reqs :
        (pc[r] = "done" /\ server[r] # 0 /\ ~listener[r] /\ res[r].status = 200)
            => res[r].envelopes = <<>> /\ res[r].ended

\* The invocation of request r, and whether it has been answered.
CallOf(r) == req[r].body.call
Answered(r) == req[r].body.kind = "request" /\ res[r].envelopes # <<>>
ValidCalculatorCall(r) ==
    /\ req[r].body.kind = "request"
    /\ CallOf(r).method = "tools/call" /\ CallOf(r).name = "calculator"
    /\ CallOf(r).numeric

\* C15: the calculator invoked with divide and b = 0, for any a, answers one
\* successful result envelope with the caller's id whose content is the text
\* "Error: Cannot divide by zero", never a protocol error.
C15_DivideByZeroIsContent ==
    \A r \in Reqs :
        (ValidCalculatorCall(r) /\ CallOf(r).operation = "divide"
            /\ CallOf(r).b = 0 /\ Answered(r))
            => res[r].envelopes =
                  <<ResultBody(req[r].body.id, "Error: Cannot divide by zero")>>

C15_Witness ==
    \E r \in Reqs :
        /\ ValidCalculatorCall(r) /\ CallOf(r).operation = "divide"
        /\ CallOf(r).b = 0 /\ CallOf(r).a # 0
        /\ Answered(r)

\* The decimal numeral of an integer, digit by digit.
Digit(d) ==
    CASE d = 0 -> "0" [] d = 1 -> "1" [] d = 2 -> "2" [] d = 3 -> "3"
      [] d = 4 -> "4" [] d = 5 -> "5" [] d = 6 -> "6" [] d = 7 -> "7"
      [] d = 8 -> "8" [] d = 9 -> "9"
RECURSIVE NatNumeral(_)
NatNumeral(n) == IF n < 10 THEN Digit(n) ELSE NatNumeral(n \div 10) \o Digit(n % 10)
Numeral(n) == IF n < 0 THEN "-" \o NatNumeral(-n) ELSE NatNumeral(n)

\* C16: the calculator invoked with add, subtract or multiply on integers a
\* and b answers exactly one result whose one text is the decimal numeral of
\* a+b, a-b or a*b; 2,3,add gives "5", 3,4,multiply "12", 10,4,subtract "6".
C16_Arithmetic ==
    \A r \in Reqs :
        (ValidCalculatorCall(r) /\ Answered(r))
            => LET c == CallOf(r)
                   text(t) == res[r].envelopes = <<ResultBody(req[r].body.id, t)>>
               IN  /\ c.operation = "add" => text(Numeral(c.a + c.b))
                   /\ c.operation = "subtract" => text(Numeral(c.a - c.b))
                   /\ c.operation = "multiply" => text(Numeral(c.a * c.b))
                   /\ (c.a = 2 /\ c.b = 3 /\ c.operation = "add") => text("5")
                   /\ (c.a = 3 /\ c.b = 4 /\ c.operation = "multiply") => text("12")
                   /\ (c.a = 10 /\ c.b = 4 /\ c.operation = "subtract") => text("6")

C16_Witness ==
    \E r \in Reqs :
        /\ ValidCalculatorCall(r) /\ Answered(r)
        /\ CallOf(r).a = 10 /\ CallOf(r).b = 4 /\ CallOf(r).operation = "subtract"

\* The name invoked by request r is not one initializeServer() registers for
\* the kind asked for.
UnknownName(r) ==
    /\ req[r].body.kind = "request"
    /\ ~ (CallOf(r).method = "tools/call" /\ CallOf(r).name = "calculator")
    /\ ~ (CallOf(r).method = "prompts/get" /\ CallOf(r).name = "greeting-template")

\* C17: invoking a name that is not registered is answered with exactly one
\* protocol error envelope carrying the request's id, with no handler output.
C17_UnknownNameIsProtocolError ==
    \A r \in Reqs :
        (UnknownName(r) /\ Answered(r))
            => /\ Len(res[r].envelopes) = 1
               /\ res[r].envelopes[1].kind = "error"
               /\ res[r].envelopes[1].id = req[r].body.id
               /\ res[r].envelopes[1].content = ""

C17_Witness ==
    \E r \in Reqs :
        UnknownName(r) /\ Answered(r) /\ CallOf(r).method = "tools/call"

\* C18: the calculator invoked with arguments outside its schema (a or b not
\* a number, or an operation that is none of the four) is answered with an
\* InvalidParams error (-32602) carrying the request's id; its handler does
\* not run, so "Error: Invalid operation" is never returned.
C18_InvalidParams ==
    \A r \in Reqs :
        /\ \A i \in 1..Len(res[r].envelopes) :
              res[r].envelopes[i].content # "Error: Invalid operation"
        /\ (/\ req[r].body.kind = "request"
            /\ CallOf(r).method = "tools/call" /\ CallOf(r).name = "calculator"
            /\ ~CalculatorSchema(CallOf(r))
            /\ Answered(r))
              => res[r].envelopes =
                    <<Envelope("error", -32602, "invalid arguments", req[r].body.id, "")>>

C18_Witness ==
    \E r \in Reqs :
        /\ ValidCalculatorCall(r) /\ CallOf(r).operation = "power"
        /\ Answered(r)

\* The registry of server instance s.
Registry(s) == [tools |-> srv[s].tools, prompts |-> srv[s].prompts]

C19_Step ==
    \A s \in Reqs :
        srv[s].built => (srv'[s].built /\ Registry(s)' = Registry(s))

\* C19: every server instance's registry holds exactly the tool 'calculator'
\* and the prompt 'greeting-template', and no step changes the registry of
\* an instance once it is built, whatever requests are handled.
C19_RegistryFixed ==
    /\ [](\A s \in Reqs :
            srv[s].built =>
                Registry(s) = [tools |-> {"calculator"},
                               prompts |-> {"greeting-template"}])
    /\ [][C19_Step]_vars

C19_Witness ==
    \E r1, r2 \in Reqs :
        /\ r1 # r2
        /\ server[r1] # 0 /\ server[r2] # 0 /\ server[r1] # server[r2]
        /\ srv[server[r1]].built /\ srv[server[r2]].built
        /\ Session(r1) = "Closed" /\ res[r1].envelopes # <<>>

====
